---------------------------- MODULE Spec2Model ----------------------------
(***************************************************************************)
(* A model of the binary expression evaluator                              *)
(* (third_party/cloud-debug-java/binary_expression_evaluator.cc) and of    *)
(* the evaluation coordinator declared in i_evalcoordinator.h.             *)
(*                                                                         *)
(* Spec       : one Binary node, compiled and evaluated by a worker        *)
(*              thread; its children may wait on the coordinator, and the  *)
(*              callback thread runs while they wait.                      *)
(* CoordSpec  : the coordinator protocol between the callback thread and   *)
(*              the worker threads.                                        *)
(* CoordFairSpec : CoordSpec with the fairness of the callback thread.     *)
(***************************************************************************)
EXTENDS Integers, Sequences, FiniteSets, TLC

VARIABLES
  \* ---- the Binary node (BinaryExpressionEvaluator) ----
  long_width,     \* width in bits of the build's `long` (decides LONG_MIN)
  type_,          \* BinaryCSharpExpression::Type of the node
  arg1_, arg2_,   \* the operands: [cor_type |-> static kind of the child]
  computer_,      \* the selected operation (member-function pointer)
  result_type_,   \* TypeSignature of the node
  phase,          \* "constructed" | "compiled" | "arg1" (inside
                  \* arg1_->Evaluate) | "arg2" (inside arg2_->Evaluate) |
                  \* "evaluated"
  compile_hr,     \* HRESULT of the most recent Compile ("none" before any)
  err_stream,     \* what the most recent call wrote to its error stream
  arg1_obj,       \* outcome of arg1_->Evaluate in the most recent Evaluate
  arg2_obj,       \* outcome of arg2_->Evaluate (NotEvaluated if not called)
  arg1_evals,     \* number of arg1_->Evaluate calls in the most recent Evaluate
  arg2_evals,     \* number of arg2_->Evaluate calls in the most recent Evaluate
  computer_calls, \* number of (this->*computer_) calls in the most recent Evaluate
  eval_hr,        \* HRESULT of the most recent Evaluate ("none" before any)
  dbg_object,     \* *dbg_object after the most recent Evaluate (Null if unset)
  \* ---- the evaluation coordinator (IEvalCoordinator) ----
  coord_state,    \* "Idle" | "EvalRequested" | "Completed" | "ExceptionThrown"
  pending_flag,   \* WaitingForEval(): an evaluation is pending
  result_slot,    \* the value the evaluation produced (0: none)
  exception_flag, \* the evaluation threw, or was cancelled
  waiter,         \* the worker blocked in WaitForEval (0: none)
  wpc,            \* worker -> "reading" | "ready" | "blocked" | "finished"
  wret,           \* worker -> what its last WaitForEval returned
  cb_pc,          \* callback thread: "waiting_ready" | "listening" | "done"
  target,         \* "suspended" | "running_eval" | "resumed" | "gone"
  signalled       \* what the callback thread passed to the signal that
                  \* has not been consumed yet

evalVars == <<long_width, type_, arg1_, arg2_, computer_, result_type_, phase,
              compile_hr, err_stream, arg1_obj, arg2_obj, arg1_evals,
              arg2_evals, computer_calls, eval_hr, dbg_object>>

coordVars == <<coord_state, pending_flag, result_slot, exception_flag, waiter,
               wpc, wret, cb_pc, target, signalled>>

vars == <<evalVars, coordVars>>

-----------------------------------------------------------------------------
(* HRESULT                                                                 *)

S_OK == "S_OK"
E_FAIL == "E_FAIL"
E_NOTIMPL == "E_NOTIMPL"
E_INVALIDARG == "E_INVALIDARG"
\* An error code a child expression may return from Compile or Evaluate.
E_CHILD == "E_ABORT"
\* The process is killed by a signal (SIGFPE, SIGSEGV): no HRESULT is returned.
CRASHED == "CRASHED"

FAILED(hr) == hr # S_OK
SUCCEEDED(hr) == hr = S_OK

\* `return false;` in a function returning HRESULT: the bool converts to 0.
BoolToHRESULT(b) == IF b THEN "S_FALSE" ELSE S_OK

-----------------------------------------------------------------------------
(* CorElementType: the kinds of the model                                  *)

ELEMENT_TYPE_BOOLEAN == "BOOLEAN"
ELEMENT_TYPE_CHAR == "CHAR"
ELEMENT_TYPE_I2 == "I2"
ELEMENT_TYPE_U2 == "U2"
ELEMENT_TYPE_I4 == "I4"
ELEMENT_TYPE_U4 == "U4"
ELEMENT_TYPE_I8 == "I8"
ELEMENT_TYPE_U8 == "U8"
ELEMENT_TYPE_R4 == "R4"
ELEMENT_TYPE_R8 == "R8"
ELEMENT_TYPE_STRING == "STRING"
ELEMENT_TYPE_CLASS == "CLASS"
ELEMENT_TYPE_OBJECT == "OBJECT"

Kinds == {ELEMENT_TYPE_BOOLEAN, ELEMENT_TYPE_CHAR, ELEMENT_TYPE_I2,
          ELEMENT_TYPE_U2, ELEMENT_TYPE_I4, ELEMENT_TYPE_U4, ELEMENT_TYPE_I8,
          ELEMENT_TYPE_U8, ELEMENT_TYPE_R4, ELEMENT_TYPE_R8,
          ELEMENT_TYPE_STRING, ELEMENT_TYPE_CLASS}

SignedKinds == {ELEMENT_TYPE_I2, ELEMENT_TYPE_I4, ELEMENT_TYPE_I8}
UnsignedKinds == {ELEMENT_TYPE_CHAR, ELEMENT_TYPE_U2, ELEMENT_TYPE_U4,
                  ELEMENT_TYPE_U8}
FloatKinds == {ELEMENT_TYPE_R4, ELEMENT_TYPE_R8}

\* TypeCompilerHelper::IsIntegralType
IsIntegralType(k) == k \in SignedKinds \cup UnsignedKinds

\* TypeCompilerHelper::IsNumericalType
IsNumericalType(k) == IsIntegralType(k) \/ k \in FloatKinds

\* NumericCompilerHelper::IsNumericallyPromotedToInt: the kinds narrower than
\* int; int itself is not among them (CompileShift tests it separately).
IsNumericallyPromotedToInt(k) ==
  k \in {ELEMENT_TYPE_CHAR, ELEMENT_TYPE_I2, ELEMENT_TYPE_U2}

\* NumericCompilerHelper::BinaryNumericalPromotion: [ok, result].
BinaryNumericalPromotion(a, b) ==
  LET either(k) == a = k \/ b = k
      other(k) == IF a = k THEN b ELSE a
      no == [ok |-> FALSE, result |-> ELEMENT_TYPE_OBJECT]
      yes(k) == [ok |-> TRUE, result |-> k]
  IN  IF ~(IsNumericalType(a) /\ IsNumericalType(b)) THEN no
      ELSE IF either(ELEMENT_TYPE_R8) THEN yes(ELEMENT_TYPE_R8)
      ELSE IF either(ELEMENT_TYPE_R4) THEN yes(ELEMENT_TYPE_R4)
      ELSE IF either(ELEMENT_TYPE_U8)
        THEN IF other(ELEMENT_TYPE_U8) \in SignedKinds THEN no
             ELSE yes(ELEMENT_TYPE_U8)
      ELSE IF either(ELEMENT_TYPE_I8) THEN yes(ELEMENT_TYPE_I8)
      ELSE IF either(ELEMENT_TYPE_U4)
        THEN IF other(ELEMENT_TYPE_U4) \in SignedKinds
             THEN yes(ELEMENT_TYPE_I8)
             ELSE yes(ELEMENT_TYPE_U4)
      ELSE yes(ELEMENT_TYPE_I4)

kBooleanClassName == "System.Boolean"

\* TypeCompilerHelper::ConvertCorElementTypeToString: [hr, type_name].
ConvertCorElementTypeToString(k) ==
  [hr |-> S_OK,
   type_name |->
     CASE k = ELEMENT_TYPE_BOOLEAN -> kBooleanClassName
       [] k = ELEMENT_TYPE_CHAR -> "System.Char"
       [] k = ELEMENT_TYPE_I2 -> "System.Int16"
       [] k = ELEMENT_TYPE_U2 -> "System.UInt16"
       [] k = ELEMENT_TYPE_I4 -> "System.Int32"
       [] k = ELEMENT_TYPE_U4 -> "System.UInt32"
       [] k = ELEMENT_TYPE_I8 -> "System.Int64"
       [] k = ELEMENT_TYPE_U8 -> "System.UInt64"
       [] k = ELEMENT_TYPE_R4 -> "System.Single"
       [] k = ELEMENT_TYPE_R8 -> "System.Double"
       [] k = ELEMENT_TYPE_STRING -> "System.String"
       [] OTHER -> "System.Object"]

\* TypeSignature::Object
TypeSignatureObject ==
  [cor_type |-> ELEMENT_TYPE_OBJECT, type_name |-> "System.Object"]

-----------------------------------------------------------------------------
(* error_messages.h: the labels written to the error stream                *)

kTypeMismatch == "kTypeMismatch"
kExpressionNotSupported == "kExpressionNotSupported"
kFailedToEvalFirstSubExpr == "kFailedToEvalFirstSubExpr"
kFailedToEvalSecondSubExpr == "kFailedToEvalSecondSubExpr"

-----------------------------------------------------------------------------
(* BinaryCSharpExpression::Type                                            *)

\* Mutant of ArithmeticTypes: shl is dispatched with the arithmetic operators.
ArithmeticTypes_WithShl == {"add", "sub", "mul", "div", "mod", "shl"}

ArithmeticTypes == {"add", "sub", "mul", "div", "mod"}
RelationalTypes == {"eq", "ne", "le", "ge", "lt", "gt"}
ConditionalTypes == {"conditional_and", "conditional_or"}
LogicalTypes == {"bitwise_and", "bitwise_or", "bitwise_xor"}
ShiftTypes == {"shl", "shr_s", "shr_u"}
BinaryTypes == ArithmeticTypes \cup RelationalTypes \cup ConditionalTypes
                 \cup LogicalTypes \cup ShiftTypes

-----------------------------------------------------------------------------
(* The selected operation                                                  *)

nullptr == [fn |-> "nullptr", T |-> "", Bitmask |-> 0]
Computer(fn, T) == [fn |-> fn, T |-> T, Bitmask |-> 0]

\* Mutant of ShiftComputerOf: the unsigned instantiation, whatever the kind.
ShiftComputerOf_Unsigned(T, mask) ==
  [fn |-> "ShiftComputer",
   T |-> IF T = "I4" THEN "U4" ELSE IF T = "I8" THEN "U8" ELSE T,
   Bitmask |-> mask]

ShiftComputerOf(T, mask) == [fn |-> "ShiftComputer", T |-> T, Bitmask |-> mask]


-----------------------------------------------------------------------------
(* Compile.  Each Compile* operator takes the operands' static kinds and   *)
(* the node's current computer_ and result_type_ (cur) and yields what the *)
(* method leaves: [hr, computer, result_type, err].                        *)

CompileOut(hr, computer, result_type, err) ==
  [hr |-> hr, computer |-> computer, result_type |-> result_type, err |-> err]

ArithmeticKinds == {ELEMENT_TYPE_I4, ELEMENT_TYPE_U4, ELEMENT_TYPE_I8,
                    ELEMENT_TYPE_U8, ELEMENT_TYPE_R4, ELEMENT_TYPE_R8}
BitwiseKinds == {ELEMENT_TYPE_I4, ELEMENT_TYPE_U4, ELEMENT_TYPE_I8,
                 ELEMENT_TYPE_U8}

CompileArithmetical(a1, a2, cur) ==
  LET p == BinaryNumericalPromotion(a1, a2)
      conv == ConvertCorElementTypeToString(p.result)
      rt == [cor_type |-> p.result, type_name |-> conv.type_name]
  IN  IF ~p.ok
        THEN CompileOut(E_FAIL, cur.computer, cur.result_type, <<kTypeMismatch>>)
      ELSE IF FAILED(conv.hr)
        THEN CompileOut(conv.hr, cur.computer,
                        [cur.result_type EXCEPT !.cor_type = p.result], <<>>)
      ELSE IF p.result \in ArithmeticKinds
        THEN CompileOut(S_OK, Computer("ArithmeticComputer", p.result), rt, <<>>)
      ELSE CompileOut(E_FAIL, cur.computer, rt, <<kTypeMismatch>>)

\* Mutant of CompileBooleanConditional: every pair is rejected.
CompileBooleanConditional_Rejecting(a1, a2, cur) ==
  CompileOut(E_FAIL, cur.computer, cur.result_type, <<kTypeMismatch>>)

CompileBooleanConditional(a1, a2, cur) ==
  IF a1 = ELEMENT_TYPE_BOOLEAN /\ a2 = ELEMENT_TYPE_BOOLEAN
    THEN CompileOut(S_OK, Computer("ConditionalBooleanComputer", ""),
                    [cor_type |-> ELEMENT_TYPE_BOOLEAN,
                     type_name |-> kBooleanClassName], <<>>)
    ELSE CompileOut(E_FAIL, cur.computer, cur.result_type, <<kTypeMismatch>>)

\* The pair of kinds CompileRelational hands to BinaryNumericalPromotion.
RelationalPromotionArgs(signature1, signature2) == <<signature1, signature1>>

CompileRelational(t, a1, a2, cur) ==
  LET rt == [cor_type |-> ELEMENT_TYPE_BOOLEAN, type_name |-> kBooleanClassName]
      cur1 == [computer |-> cur.computer, result_type |-> rt]
      args == RelationalPromotionArgs(a1, a2)
      p == BinaryNumericalPromotion(args[1], args[2])
  IN  IF IsNumericalType(a1) /\ IsNumericalType(a2)
        THEN IF ~p.ok
               THEN CompileOut(E_FAIL, cur.computer, rt, <<kTypeMismatch>>)
             ELSE IF p.result \in ArithmeticKinds
               THEN CompileOut(S_OK,
                               Computer("NumericalComparisonComputer", p.result),
                               rt, <<>>)
             ELSE CompileOut(E_FAIL, cur.computer, rt, <<kTypeMismatch>>)
      ELSE IF t # "eq" /\ t # "ne"
        THEN CompileOut(E_NOTIMPL, cur.computer, rt, <<kExpressionNotSupported>>)
      ELSE IF a1 = ELEMENT_TYPE_BOOLEAN /\ a2 = ELEMENT_TYPE_BOOLEAN
        THEN CompileBooleanConditional(a1, a2, cur1)
      ELSE IF a1 = ELEMENT_TYPE_STRING /\ a2 = ELEMENT_TYPE_STRING
        THEN CompileOut(S_OK, Computer("ConditionalStringComputer", ""), rt, <<>>)
      ELSE IF ~IsNumericalType(a1) /\ ~IsNumericalType(a2)
        THEN CompileOut(S_OK, Computer("ConditionalObjectComputer", ""), rt, <<>>)
      ELSE CompileOut(E_FAIL, cur.computer, rt, <<kTypeMismatch>>)

CompileLogical(a1, a2, cur) ==
  LET p == BinaryNumericalPromotion(a1, a2)
      conv == ConvertCorElementTypeToString(p.result)
      rt == [cor_type |-> p.result, type_name |-> conv.type_name]
  IN  IF IsIntegralType(a1) /\ IsIntegralType(a2)
        THEN IF ~p.ok
               THEN CompileOut(E_FAIL, cur.computer, cur.result_type,
                               <<kTypeMismatch>>)
             ELSE IF FAILED(conv.hr)
               THEN CompileOut(conv.hr, cur.computer,
                               [cur.result_type EXCEPT !.cor_type = p.result],
                               <<>>)
             ELSE IF p.result \in BitwiseKinds
               THEN CompileOut(S_OK, Computer("BitwiseComputer", p.result), rt,
                               <<>>)
             ELSE CompileOut(E_FAIL, cur.computer, rt, <<kTypeMismatch>>)
        ELSE CompileBooleanConditional(a1, a2, cur)

\* The status CompileShift returns from the default branch of its switch.
ShiftDefaultStatus == BoolToHRESULT(FALSE)

\* The first test of CompileShift: the operand kinds it rejects outright.
ShiftOperandsRejected(arg1_type, arg2_type) ==
  ~IsIntegralType(arg1_type) /\ ~IsIntegralType(arg2_type)

CompileShift(a1, a2, cur) ==
  LET arg1_type == IF IsNumericallyPromotedToInt(a1) THEN ELEMENT_TYPE_I4 ELSE a1
      conv == ConvertCorElementTypeToString(arg1_type)
      rt == [cor_type |-> arg1_type, type_name |-> conv.type_name]
  IN  IF ShiftOperandsRejected(a1, a2)
        THEN CompileOut(E_FAIL, cur.computer, cur.result_type, <<kTypeMismatch>>)
      ELSE IF ~IsNumericallyPromotedToInt(a2) /\ a2 # ELEMENT_TYPE_I4
        THEN CompileOut(E_FAIL, cur.computer, cur.result_type, <<kTypeMismatch>>)
      ELSE IF FAILED(conv.hr)
        THEN CompileOut(conv.hr, cur.computer,
                        [cur.result_type EXCEPT !.cor_type = arg1_type], <<>>)
      ELSE IF arg1_type \in {ELEMENT_TYPE_I4, ELEMENT_TYPE_U4}
        THEN CompileOut(S_OK, ShiftComputerOf(arg1_type, 31), rt, <<>>)
      ELSE IF arg1_type \in {ELEMENT_TYPE_I8, ELEMENT_TYPE_U8}
        THEN CompileOut(S_OK, ShiftComputerOf(arg1_type, 63), rt, <<>>)
      ELSE CompileOut(ShiftDefaultStatus, cur.computer, rt, <<kTypeMismatch>>)

\* BinaryExpressionEvaluator::Compile, given the status each child's Compile
\* returns (c1, c2).
CompileResult(t, a1, a2, c1, c2, cur) ==
  IF FAILED(c1) THEN CompileOut(c1, cur.computer, cur.result_type, <<>>)
  ELSE IF FAILED(c2) THEN CompileOut(c2, cur.computer, cur.result_type, <<>>)
  ELSE IF t \in ArithmeticTypes THEN CompileArithmetical(a1, a2, cur)
  ELSE IF t \in RelationalTypes THEN CompileRelational(t, a1, a2, cur)
  ELSE IF t \in ConditionalTypes THEN CompileBooleanConditional(a1, a2, cur)
  ELSE IF t \in LogicalTypes THEN CompileLogical(a1, a2, cur)
  ELSE IF t \in ShiftTypes THEN CompileShift(a1, a2, cur)
  ELSE CompileOut(E_FAIL, cur.computer, cur.result_type, <<>>)

-----------------------------------------------------------------------------
(* Fixed-width integers.  An integer of width w is the set of the          *)
(* positions (0 .. w-1) of its one bits, in two's complement: all C++      *)
(* integer operations below are exact at 32 and 64 bits.                   *)

Width(T) ==
  CASE T \in {ELEMENT_TYPE_I8, ELEMENT_TYPE_U8} -> 64
    [] T \in {ELEMENT_TYPE_I4, ELEMENT_TYPE_U4} -> 32
    [] T \in {ELEMENT_TYPE_I2, ELEMENT_TYPE_U2, ELEMENT_TYPE_CHAR} -> 16
    [] OTHER -> 1

IsSigned(T) == T \in SignedKinds

Max(S) == CHOOSE x \in S : \A y \in S : y <= x

\* The bits of a small natural number n < 2^31.
NatBits(n) == {i \in 0..30 : (n \div (2^i)) % 2 = 1}

\* The w-bit two's complement image of the small integer n.
BitsOf(n, w) ==
  IF n >= 0 THEN NatBits(n) \cap (0..(w-1))
  ELSE (0..(w-1)) \ NatBits(-(n + 1))

RECURSIVE SumBits(_)
SumBits(S) ==
  IF S = {} THEN 0
  ELSE LET i == CHOOSE x \in S : TRUE IN 2^i + SumBits(S \ {i})

IsNegative(a, w) == (w - 1) \in a

\* The value of a (read as signed or unsigned), for |value| < 2^31.
ToInt(a, w, signed) ==
  IF signed /\ IsNegative(a, w) THEN -(SumBits((0..(w-1)) \ a)) - 1
  ELSE SumBits(a)

\* Integral conversion from a value of kind K to width w (static_cast):
\* sign- or zero-extension, then truncation modulo 2^w.
Convert(a, K, w) ==
  LET wk == Width(K)
      ext == IF IsSigned(K) /\ IsNegative(a, wk) /\ w > wk
               THEN a \cup (wk..(w-1)) ELSE a
  IN  ext \cap (0..(w-1))

\* The carry into position i of a + b + c0 (c0 \in {0, 1}): the nearest
\* position below i that generates a carry (both bits one; c0 sits at
\* position -1) is reached through positions that all propagate it.
CarryInto(a, b, c0, i) ==
  \/ \E j \in {x \in a \cap b : x < i} :
        \A k \in (j + 1)..(i - 1) : (k \in a) # (k \in b)
  \/ c0 = 1 /\ \A k \in 0..(i - 1) : (k \in a) # (k \in b)

\* a + b + c0 modulo 2^w, bits from position i up.
AddFrom(a, b, i, c0, w) ==
  {n \in i..(w - 1) :
     ((n \in a) # (n \in b)) # CarryInto(a, b, c0, n)}

BvAdd(a, b, w) == AddFrom(a, b, 0, 0, w)
BvNot(a, w) == (0..(w-1)) \ a
BvNeg(a, w) == AddFrom(BvNot(a, w), {}, 0, 1, w)
BvSub(a, b, w) == AddFrom(a, BvNot(b, w), 0, 1, w)
BvShl(a, c, w) == {i + c : i \in a} \cap (0..(w-1))
BvLShr(a, c, w) == {i - c : i \in {j \in a : j >= c}}
BvAShr(a, c, w) ==
  BvLShr(a, c, w) \cup (IF IsNegative(a, w) THEN ((w - c)..(w-1)) \cap (0..(w-1))
                        ELSE {})

RECURSIVE MulAcc(_, _, _, _)
MulAcc(a, bs, acc, w) ==
  IF bs = {} THEN acc
  ELSE LET i == CHOOSE x \in bs : TRUE
       IN  MulAcc(a, bs \ {i}, BvAdd(acc, BvShl(a, i, w), w), w)

\* a * b modulo 2^w, computed on the magnitudes of the two's complement
\* readings (the product modulo 2^w is the same read signed or unsigned).
BvMul(a, b, w) ==
  LET sa == IsNegative(a, w)
      sb == IsNegative(b, w)
      ma == IF sa THEN BvNeg(a, w) ELSE a
      mb == IF sb THEN BvNeg(b, w) ELSE b
      m == MulAcc(ma, mb, {}, w)
  IN  IF sa # sb THEN BvNeg(m, w) ELSE m

ULess(a, b) ==
  LET d == (a \ b) \cup (b \ a) IN d # {} /\ Max(d) \in b

SLess(a, b, w) ==
  IF IsNegative(a, w) # IsNegative(b, w) THEN IsNegative(a, w) ELSE ULess(a, b)

BvLess(a, b, T) == IF IsSigned(T) THEN SLess(a, b, Width(T)) ELSE ULess(a, b)

\* Unsigned long division, b # 0: [q, r].
RECURSIVE UDivStep(_, _, _, _, _, _)
UDivStep(a, b, i, q, r, w) ==
  IF i < 0 THEN [q |-> q, r |-> r]
  ELSE LET r1 == BvShl(r, 1, w + 1) \cup (IF i \in a THEN {0} ELSE {})
       IN  IF ULess(r1, b) THEN UDivStep(a, b, i - 1, q, r1, w)
           ELSE UDivStep(a, b, i - 1, q \cup {i}, BvSub(r1, b, w + 1), w)

UDivMod(a, b, w) ==
  IF a = {} THEN [q |-> {}, r |-> {}] ELSE UDivStep(a, b, Max(a), {}, {}, w)

\* C++ / and % at kind T, divisor # 0: the quotient truncates toward zero,
\* the remainder has the sign of the dividend; the results wrap to the width.
BvDivMod(a, b, T) ==
  LET w == Width(T)
      sa == IsSigned(T) /\ IsNegative(a, w)
      sb == IsSigned(T) /\ IsNegative(b, w)
      ma == IF sa THEN BvNeg(a, w) ELSE a
      mb == IF sb THEN BvNeg(b, w) ELSE b
      qr == UDivMod(ma, mb, w)
  IN  [q |-> IF sa # sb THEN BvNeg(qr.q, w) ELSE qr.q \cap (0..(w-1)),
       r |-> IF sa THEN BvNeg(qr.r, w) ELSE qr.r \cap (0..(w-1))]

\* Signed overflow of +, - and * at width w (undefined behaviour in C++).
AddOverflows(a, b, w) ==
  IsNegative(a, w) = IsNegative(b, w)
    /\ IsNegative(BvAdd(a, b, w), w) # IsNegative(a, w)
SubOverflows(a, b, w) ==
  IsNegative(a, w) # IsNegative(b, w)
    /\ IsNegative(BvSub(a, b, w), w) # IsNegative(a, w)
MulOverflows(a, b, w) ==
  LET sa == IsNegative(a, w)
      sb == IsNegative(b, w)
      ma == IF sa THEN BvNeg(a, w) ELSE a
      mb == IF sb THEN BvNeg(b, w) ELSE b
      \* |a| * |b|, exact: it is below 2^(2w)
      m == MulAcc(ma, mb, {}, 2 * w)
  IN  IF sa = sb THEN \E i \in m : i >= w - 1
      ELSE (\E i \in m : i >= w) \/ ((w - 1) \in m /\ m # {w - 1})

-----------------------------------------------------------------------------
(* Floating point.  A float or double is a fraction num/den (den > 0);     *)
(* den = 0 is +infinity (num = 1), -infinity (num = -1) or NaN (num = 0).  *)
(* The operands explored are fractions that float32 represents exactly; a  *)
(* quotient is kept as the fraction it rounds.                             *)

Abs(n) == IF n < 0 THEN -n ELSE n

RECURSIVE GCD(_, _)
GCD(a, b) == IF b = 0 THEN a ELSE GCD(b, a % b)

Frac(n, d) ==
  IF d = 0 THEN [num |-> IF n > 0 THEN 1 ELSE IF n < 0 THEN -1 ELSE 0, den |-> 0]
  ELSE LET g == GCD(Abs(n), Abs(d))
           sgn == IF d < 0 THEN -1 ELSE 1
       IN  [num |-> sgn * (n \div g), den |-> sgn * (d \div g)]

\* Truncation toward zero of n/d, d > 0.
Trunc(n, d) == IF n >= 0 THEN n \div d ELSE -((-n) \div d)

FloatAdd(x, y) == Frac(x.num * y.den + y.num * x.den, x.den * y.den)
FloatSub(x, y) == Frac(x.num * y.den - y.num * x.den, x.den * y.den)
FloatMul(x, y) == Frac(x.num * y.num, x.den * y.den)
\* IEEE division of finite operands: x/0 is an infinity, 0/0 is NaN.
FloatDiv(x, y) == Frac(x.num * y.den, x.den * y.num)
\* std::fmod of finite operands: x - y * trunc(x / y); NaN when y is 0.
FloatMod(x, y) ==
  IF y.num = 0 THEN Frac(0, 0)
  ELSE LET q == Frac(x.num * y.den, x.den * y.num)
           n == Trunc(q.num, q.den)
       IN  FloatSub(x, FloatMul(Frac(n, 1), y))
FloatLess(x, y) == x.num * y.den < y.num * x.den

-----------------------------------------------------------------------------
(* DbgObject: the runtime values.  kind is the CorElementType; bits holds  *)
(* an integral or boolean payload, num/den a floating one, str the content *)
(* of a string, addr the address (GetAddress) of a reference object.       *)

DbgObject(kind, bits, num, den, str, addr) ==
  [kind |-> kind, bits |-> bits, num |-> num, den |-> den, str |-> str,
   addr |-> addr]

Null == DbgObject("null", {}, 0, 1, "", 0)

\* new DbgPrimitive<T>(value)
DbgPrimitiveInt(T, bits) == DbgObject(T, bits, 0, 1, "", 0)
DbgPrimitiveFloat(T, f) == DbgObject(T, {}, f.num, f.den, "", 0)
DbgPrimitiveBool(b) ==
  DbgObject(ELEMENT_TYPE_BOOLEAN, IF b THEN {0} ELSE {}, 0, 1, "", 0)
\* DbgString and a reference to a class instance
DbgStringObj(content, addr) == DbgObject(ELEMENT_TYPE_STRING, {}, 0, 1, content, addr)
DbgClassObj(addr) == DbgObject(ELEMENT_TYPE_CLASS, {}, 0, 1, "", addr)

\* NumericCompilerHelper::ExtractPrimitiveValue<T>: [hr, bits, num, den].
ExtractPrimitiveValue(T, obj) ==
  LET fail == [hr |-> E_FAIL, bits |-> {}, num |-> 0, den |-> 1]
      int(b) == [hr |-> S_OK, bits |-> b, num |-> 0, den |-> 1]
      flt(f) == [hr |-> S_OK, bits |-> {}, num |-> f.num, den |-> f.den]
  IN  IF T = ELEMENT_TYPE_BOOLEAN
        THEN IF obj.kind = ELEMENT_TYPE_BOOLEAN THEN int(obj.bits) ELSE fail
      ELSE IF ~IsNumericalType(T) \/ ~IsNumericalType(obj.kind) THEN fail
      ELSE IF T \in FloatKinds
        THEN IF obj.kind \in FloatKinds THEN flt(Frac(obj.num, obj.den))
             ELSE flt(Frac(ToInt(obj.bits, Width(obj.kind), IsSigned(obj.kind)), 1))
      ELSE IF obj.kind \in FloatKinds
        THEN int(BitsOf(Trunc(obj.num, obj.den), Width(T)))
      ELSE int(Convert(obj.bits, obj.kind, Width(T)))

\* DbgString::GetString: "Fails if DbgObject is not a DbgString".
GetString(obj) ==
  IF obj.kind = ELEMENT_TYPE_STRING THEN [hr |-> S_OK, str |-> obj.str]
  ELSE [hr |-> E_FAIL, str |-> ""]

-----------------------------------------------------------------------------
(* The computers.  Each yields the set of outcomes [hr, obj] the call can  *)
(* have: one outcome, except where the C++ is undefined behaviour.         *)

Ok(obj) == [hr |-> S_OK, obj |-> obj]
Err(hr) == [hr |-> hr, obj |-> Null]

\* An operation with undefined behaviour: the build either produces the
\* wrapped two's complement result or traps.
UndefinedBehaviour(obj) == {Ok(obj), Err(CRASHED)}

\* INT_MIN as an int32_t, and LONG_MIN converted to int64_t: `long` has
\* long_width bits (64 on LP64 builds, 32 on LLP64 builds).
INT_MIN == {31}
LONG_MIN(lw) == (lw - 1)..63

\* Mutant of IsDivisionByZero: the floating-point exemption is missing.
IsDivisionByZero_AnyKind(T, divisor) ==
  IF T \in FloatKinds THEN divisor.num = 0 ELSE divisor.bits = {}

\* template<typename T> IsDivisionByZero(T divisor), on the extracted value.
IsDivisionByZero(T, divisor) ==
  IF T \in FloatKinds THEN FALSE ELSE divisor.bits = {}

\* IsDivisionOverflow(value1, value2) as overload resolution selects it:
\* the (int32_t, int32_t), (int64_t, int64_t), (float_t, float_t) and
\* (double_t, double_t) overloads, and the template for the unsigned kinds.
IsDivisionOverflow(T, value1, value2, lw) ==
  CASE T = ELEMENT_TYPE_I4 -> value1.bits = INT_MIN /\ value2.bits = 0..31
    [] T = ELEMENT_TYPE_I8 -> value1.bits = LONG_MIN(lw) /\ value2.bits = 0..63
    [] T \in FloatKinds -> FALSE
    [] OTHER -> FALSE

\* value1 / value2 or value1 % value2 on integral T overflows (the quotient
\* is not representable): undefined behaviour, SIGFPE on x86.
DivisionTraps(T, value1, value2) ==
  IsSigned(T) /\ value1.bits = {Width(T) - 1} /\ value2.bits = 0..(Width(T) - 1)

ArithmeticComputer(T, t, arg1, arg2, lw) ==
  LET value1 == ExtractPrimitiveValue(T, arg1)
      value2 == ExtractPrimitiveValue(T, arg2)
      w == Width(T)
      isFloat == T \in FloatKinds
      prim(bits) == DbgPrimitiveInt(T, bits)
      fprim(f) == DbgPrimitiveFloat(T, f)
      qr == BvDivMod(value1.bits, value2.bits, T)
  IN  IF FAILED(value1.hr) THEN {Err(value1.hr)}
      ELSE IF FAILED(value2.hr) THEN {Err(value2.hr)}
      ELSE CASE t = "add" ->
                  IF isFloat THEN {Ok(fprim(FloatAdd(value1, value2)))}
                  ELSE IF IsSigned(T) /\ AddOverflows(value1.bits, value2.bits, w)
                    THEN UndefinedBehaviour(prim(BvAdd(value1.bits, value2.bits, w)))
                  ELSE {Ok(prim(BvAdd(value1.bits, value2.bits, w)))}
             [] t = "sub" ->
                  IF isFloat THEN {Ok(fprim(FloatSub(value1, value2)))}
                  ELSE IF IsSigned(T) /\ SubOverflows(value1.bits, value2.bits, w)
                    THEN UndefinedBehaviour(prim(BvSub(value1.bits, value2.bits, w)))
                  ELSE {Ok(prim(BvSub(value1.bits, value2.bits, w)))}
             [] t = "mul" ->
                  IF isFloat THEN {Ok(fprim(FloatMul(value1, value2)))}
                  ELSE IF IsSigned(T) /\ MulOverflows(value1.bits, value2.bits, w)
                    THEN UndefinedBehaviour(prim(BvMul(value1.bits, value2.bits, w)))
                  ELSE {Ok(prim(BvMul(value1.bits, value2.bits, w)))}
             [] t \in {"mod", "div"} ->
                  IF IsDivisionByZero(T, value2) THEN {Err(E_INVALIDARG)}
                  ELSE IF IsDivisionOverflow(T, value1, value2, lw)
                    THEN {Err(E_INVALIDARG)}
                  ELSE IF isFloat
                    THEN IF t = "div" THEN {Ok(fprim(FloatDiv(value1, value2)))}
                         ELSE {Ok(fprim(FloatMod(value1, value2)))}
                  ELSE IF DivisionTraps(T, value1, value2)
                    THEN UndefinedBehaviour(prim(IF t = "div" THEN qr.q ELSE qr.r))
                  ELSE {Ok(prim(IF t = "div" THEN qr.q ELSE qr.r))}
             [] OTHER -> {Err(E_NOTIMPL)}

BitwiseComputer(T, t, arg1, arg2) ==
  LET value1 == ExtractPrimitiveValue(T, arg1)
      value2 == ExtractPrimitiveValue(T, arg2)
      a == value1.bits
      b == value2.bits
  IN  IF FAILED(value1.hr) THEN {Err(value1.hr)}
      ELSE IF FAILED(value2.hr) THEN {Err(value2.hr)}
      ELSE CASE t = "bitwise_and" -> {Ok(DbgPrimitiveInt(T, a \cap b))}
             [] t = "bitwise_or" -> {Ok(DbgPrimitiveInt(T, a \cup b))}
             [] t = "bitwise_xor" -> {Ok(DbgPrimitiveInt(T, (a \ b) \cup (b \ a)))}
             [] OTHER -> {Err(E_NOTIMPL)}

\* Mutant of MaskCount: the low-order five bits at every working kind.
MaskCount_FiveBits(bits, Bitmask) == SumBits(bits \cap NatBits(31))

\* value2 &= Bitmask, as a number: Bitmask is 0x1f or 0x3f.
MaskCount(bits, Bitmask) == SumBits(bits \cap NatBits(Bitmask))

\* value1 << value2 with value2 below the width of T is undefined behaviour
\* when T is signed and value1 is negative or a one bit leaves the width.
ShlUndefined(T, a, c) ==
  IsSigned(T) /\ a # {} /\ (IsNegative(a, Width(T)) \/ Max(a) + c >= Width(T))

\* >> on a signed T copies the sign bit, on an unsigned T fills with zeros.
ShiftComputer(T, Bitmask, t, arg1, arg2) ==
  LET value1 == ExtractPrimitiveValue(T, arg1)
      value2 == ExtractPrimitiveValue(ELEMENT_TYPE_I4, arg2)
      w == Width(T)
      a == value1.bits
      c == MaskCount(value2.bits, Bitmask)
  IN  IF FAILED(value1.hr) THEN {Err(value1.hr)}
      ELSE IF FAILED(value2.hr) THEN {Err(value2.hr)}
      ELSE CASE t = "shl" ->
                  IF ShlUndefined(T, a, c)
                    THEN UndefinedBehaviour(DbgPrimitiveInt(T, BvShl(a, c, w)))
                    ELSE {Ok(DbgPrimitiveInt(T, BvShl(a, c, w)))}
             [] t \in {"shr_s", "shr_u"} ->
                  {Ok(DbgPrimitiveInt(T, IF IsSigned(T) THEN BvAShr(a, c, w)
                                         ELSE BvLShr(a, c, w)))}
             [] OTHER -> {Err(E_NOTIMPL)}

\* The value ConditionalObjectComputer stores for `ne`.
ObjectNotEqualResult(has_same_address) == has_same_address

ConditionalObjectComputer(t, arg1, arg2) ==
  LET has_same_address == arg1.addr = arg2.addr
  IN  CASE t = "eq" -> {Ok(DbgPrimitiveBool(has_same_address))}
        [] t = "ne" -> {Ok(DbgPrimitiveBool(ObjectNotEqualResult(has_same_address)))}
        [] OTHER -> {Err(E_NOTIMPL)}

ConditionalStringComputer(t, arg1, arg2) ==
  LET first_string == GetString(arg1)
      second_string == GetString(arg2)
      is_equal == first_string.str = second_string.str
  IN  IF FAILED(first_string.hr) THEN {Err(first_string.hr)}
      ELSE IF FAILED(second_string.hr) THEN {Err(second_string.hr)}
      ELSE CASE t = "eq" -> {Ok(DbgPrimitiveBool(is_equal))}
             [] t = "ne" -> {Ok(DbgPrimitiveBool(~is_equal))}
             [] OTHER -> {Err(E_NOTIMPL)}

ConditionalBooleanComputer(t, arg1, arg2) ==
  LET e1 == ExtractPrimitiveValue(ELEMENT_TYPE_BOOLEAN, arg1)
      e2 == ExtractPrimitiveValue(ELEMENT_TYPE_BOOLEAN, arg2)
      boolean1 == e1.bits # {}
      boolean2 == e2.bits # {}
  IN  IF FAILED(e1.hr) THEN {Err(e1.hr)}
      ELSE IF FAILED(e2.hr) THEN {Err(e2.hr)}
      ELSE CASE t \in {"conditional_and", "bitwise_and"} ->
                  {Ok(DbgPrimitiveBool(boolean1 /\ boolean2))}
             [] t \in {"conditional_or", "bitwise_or"} ->
                  {Ok(DbgPrimitiveBool(boolean1 \/ boolean2))}
             [] t = "eq" -> {Ok(DbgPrimitiveBool(boolean1 = boolean2))}
             [] t \in {"ne", "bitwise_xor"} ->
                  {Ok(DbgPrimitiveBool(boolean1 # boolean2))}
             [] OTHER -> {Err(E_NOTIMPL)}

NumericalComparisonComputer(T, t, arg1, arg2) ==
  LET value1 == ExtractPrimitiveValue(T, arg1)
      value2 == ExtractPrimitiveValue(T, arg2)
      isFloat == T \in FloatKinds
      equal == IF isFloat
                 THEN value1.num = value2.num /\ value1.den = value2.den
                 ELSE value1.bits = value2.bits
      less == IF isFloat THEN FloatLess(value1, value2)
              ELSE BvLess(value1.bits, value2.bits, T)
      greater == IF isFloat THEN FloatLess(value2, value1)
                 ELSE BvLess(value2.bits, value1.bits, T)
  IN  IF FAILED(value1.hr) THEN {Err(value1.hr)}
      ELSE IF FAILED(value2.hr) THEN {Err(value2.hr)}
      ELSE CASE t = "eq" -> {Ok(DbgPrimitiveBool(equal))}
             [] t \in {"ne", "bitwise_xor"} -> {Ok(DbgPrimitiveBool(~equal))}
             [] t = "le" -> {Ok(DbgPrimitiveBool(less \/ equal))}
             [] t = "ge" -> {Ok(DbgPrimitiveBool(greater \/ equal))}
             [] t = "lt" -> {Ok(DbgPrimitiveBool(less))}
             [] t = "gt" -> {Ok(DbgPrimitiveBool(greater))}
             [] OTHER -> {Err(E_NOTIMPL)}

\* (this->*computer_)(arg1_obj, arg2_obj, dbg_object).  Calling through a
\* null member-function pointer is undefined behaviour: the call crashes,
\* or returns with an arbitrary status.
InvokeComputer(computer, t, arg1, arg2, lw) ==
  CASE computer.fn = "ArithmeticComputer" ->
         ArithmeticComputer(computer.T, t, arg1, arg2, lw)
    [] computer.fn = "BitwiseComputer" -> BitwiseComputer(computer.T, t, arg1, arg2)
    [] computer.fn = "ShiftComputer" ->
         ShiftComputer(computer.T, computer.Bitmask, t, arg1, arg2)
    [] computer.fn = "ConditionalObjectComputer" ->
         ConditionalObjectComputer(t, arg1, arg2)
    [] computer.fn = "ConditionalStringComputer" ->
         ConditionalStringComputer(t, arg1, arg2)
    [] computer.fn = "ConditionalBooleanComputer" ->
         ConditionalBooleanComputer(t, arg1, arg2)
    [] computer.fn = "NumericalComparisonComputer" ->
         NumericalComparisonComputer(computer.T, t, arg1, arg2)
    [] OTHER -> {Err(CRASHED), Err(S_OK), Err(E_FAIL)}

-----------------------------------------------------------------------------
(* Evaluate                                                                *)

\* The outcome of a child's Evaluate: [hr, obj].
NotEvaluated == [hr |-> "not_evaluated", obj |-> Null]

\* Mutant of ShortCircuits: the special case is dropped, the second operand
\* is always evaluated.
ShortCircuits_Never(t, boolean1) == FALSE

\* Evaluate returns right after the first operand: `arg1 && arg2` with arg1
\* false, `arg1 || arg2` with arg1 true.
ShortCircuits(t, boolean1) ==
  \/ t = "conditional_and" /\ ~boolean1
  \/ t = "conditional_or" /\ boolean1

\* Mutant of EvalOut: nothing is written to the diagnostic stream.
EvalOut_Untagged(hr, obj, r2, n1, n2, calls, err) ==
  [hr |-> hr, obj |-> obj, arg2 |-> r2, arg1_evals |-> n1, arg2_evals |-> n2,
   computer_calls |-> calls, err |-> <<>>]

EvalOut(hr, obj, r2, n1, n2, calls, err) ==
  [hr |-> hr, obj |-> obj, arg2 |-> r2, arg1_evals |-> n1, arg2_evals |-> n2,
   computer_calls |-> calls, err |-> err]

\* BinaryExpressionEvaluator::Evaluate from the return of arg1_->Evaluate
\* (r1) to the call of arg2_->Evaluate: the outcomes with which Evaluate
\* returns before it evaluates the second operand; empty when it goes on.
FirstOperandOutcomes(t, r1) ==
  LET e == ExtractPrimitiveValue(ELEMENT_TYPE_BOOLEAN, r1.obj)
      boolean1 == e.bits # {}
  IN  IF FAILED(r1.hr)
        THEN {EvalOut(r1.hr, Null, NotEvaluated, 1, 0, 0,
                      <<kFailedToEvalFirstSubExpr>>)}
      ELSE IF t \in ConditionalTypes /\ FAILED(e.hr)
        THEN {EvalOut(e.hr, Null, NotEvaluated, 1, 0, 0, <<>>)}
      ELSE IF t \in ConditionalTypes /\ ShortCircuits(t, boolean1)
        THEN {EvalOut(S_OK, DbgPrimitiveBool(boolean1), NotEvaluated, 1, 0, 0,
                      <<>>)}
      ELSE {}

\* BinaryExpressionEvaluator::Evaluate from the return of arg2_->Evaluate
\* (r2) to its own return.
SecondOperandOutcomes(t, computer, r1, r2, lw) ==
  IF FAILED(r2.hr)
    THEN {EvalOut(r2.hr, Null, r2, 1, 1, 0, <<kFailedToEvalSecondSubExpr>>)}
  ELSE {EvalOut(o.hr, o.obj, r2, 1, 1, 1, <<>>) :
          o \in InvokeComputer(computer, t, r1.obj, r2.obj, lw)}

\* BinaryExpressionEvaluator::Evaluate, given what each child's Evaluate
\* returns when it is called (r1, r2): the set of outcomes.
EvaluateOutcomes(t, computer, r1, r2, lw) ==
  IF FirstOperandOutcomes(t, r1) # {}
    THEN FirstOperandOutcomes(t, r1)
  ELSE SecondOperandOutcomes(t, computer, r1, r2, lw)

-----------------------------------------------------------------------------
(* The operands explored.  An integral operand that meets a floating one   *)
(* is kept below 2^24, where its conversion to float32 is exact.           *)

IntSamples(k) ==
  CASE k = ELEMENT_TYPE_CHAR -> {BitsOf(65, 16)}
    [] k = ELEMENT_TYPE_I2 -> {BitsOf(-1, 16), BitsOf(0, 16), BitsOf(33, 16)}
    [] k = ELEMENT_TYPE_U2 -> {BitsOf(0, 16), BitsOf(65, 16)}
    [] k = ELEMENT_TYPE_I4 -> {INT_MIN, BitsOf(-1, 32), BitsOf(0, 32), BitsOf(1, 32),
                               BitsOf(5, 32), BitsOf(33, 32), BitsOf(65, 32)}
    [] k = ELEMENT_TYPE_U4 -> {BitsOf(0, 32), BitsOf(1, 32), BitsOf(5, 32), {31}}
    [] k = ELEMENT_TYPE_I8 -> {{63}, 31..63, BitsOf(-1, 64), BitsOf(0, 64),
                               BitsOf(1, 64), BitsOf(5, 64)}
    [] k = ELEMENT_TYPE_U8 -> {BitsOf(0, 64), BitsOf(1, 64), BitsOf(5, 64), {63}}
    [] OTHER -> {}

IsSmallInt(bits, k) ==
  LET w == Width(k)
      m == IF IsSigned(k) /\ IsNegative(bits, w) THEN BvNot(bits, w) ELSE bits
  IN  \A i \in m : i < 24

FloatSamples == {Frac(0, 1), Frac(1, 2), Frac(5, 1)}

StringSamples == {DbgStringObj("abc", 16), DbgStringObj("abc", 32),
                  DbgStringObj("abd", 48)}
ClassSamples == {DbgClassObj(16), DbgClassObj(32)}

OperandObjects(k, other) ==
  CASE k = ELEMENT_TYPE_BOOLEAN -> {DbgPrimitiveBool(FALSE), DbgPrimitiveBool(TRUE)}
    [] k \in FloatKinds -> {DbgPrimitiveFloat(k, f) : f \in FloatSamples}
    [] k = ELEMENT_TYPE_STRING -> StringSamples
    [] k = ELEMENT_TYPE_CLASS -> ClassSamples
    [] OTHER -> {DbgPrimitiveInt(k, b) :
                   b \in {x \in IntSamples(k) :
                            other \in FloatKinds => IsSmallInt(x, k)}}

\* An object that is not a primitive, handed back by a child whose static
\* kind is primitive: ExtractPrimitiveValue fails on it.
NotAPrimitive == DbgClassObj(48)

\* What a child's Evaluate can return: an error, an object of the child's
\* static kind, or (for a primitive kind) an object that is no primitive.
ChildEvaluate(k, other) ==
  {[hr |-> E_CHILD, obj |-> Null]}
    \cup {[hr |-> S_OK, obj |-> o] : o \in OperandObjects(k, other)}
    \cup {[hr |-> S_OK, obj |-> NotAPrimitive] :
            x \in {k} \cap ({ELEMENT_TYPE_BOOLEAN} \cup {y \in Kinds : IsNumericalType(y)})}

-----------------------------------------------------------------------------
(* The Binary node as a state machine                                      *)

\* The widths of the build's `long` explored for a node of type t: 32 bits
\* (LLP64) and 64 bits (LP64) where the code reads LONG_MIN, which is in
\* IsDivisionOverflow, reached from div and mod only; one width elsewhere.
LongWidths(t) == IF t \in {"div", "mod"} THEN {32, 64} ELSE {64}

\* BinaryExpressionEvaluator::BinaryExpressionEvaluator
EvalInit ==
  /\ type_ \in BinaryTypes
  /\ long_width \in LongWidths(type_)
  /\ arg1_ \in [cor_type : Kinds]
  /\ arg2_ \in [cor_type : Kinds]
  /\ computer_ = nullptr
  /\ result_type_ = TypeSignatureObject
  /\ phase = "constructed"
  /\ compile_hr = "none"
  /\ err_stream = <<>>
  /\ arg1_obj = NotEvaluated
  /\ arg2_obj = NotEvaluated
  /\ arg1_evals = 0
  /\ arg2_evals = 0
  /\ computer_calls = 0
  /\ eval_hr = "none"
  /\ dbg_object = Null

\* BinaryExpressionEvaluator::Compile.  The caller hands in a fresh error
\* stream; the results of an earlier Evaluate are dropped.  Compile runs on
\* the thread that evaluates the node, so not while an Evaluate is under way.
Compile ==
  /\ phase \in {"constructed", "compiled", "evaluated"}
  /\ \E c1 \in {S_OK, E_CHILD}, c2 \in {S_OK, E_CHILD} :
       LET out == CompileResult(type_, arg1_.cor_type, arg2_.cor_type, c1, c2,
                                [computer |-> computer_,
                                 result_type |-> result_type_])
       IN  /\ computer_' = out.computer
           /\ result_type_' = out.result_type
           /\ compile_hr' = out.hr
           /\ err_stream' = out.err
           /\ phase' = "compiled"
           /\ arg1_obj' = NotEvaluated
           /\ arg2_obj' = NotEvaluated
           /\ arg1_evals' = 0
           /\ arg2_evals' = 0
           /\ computer_calls' = 0
           /\ eval_hr' = "none"
           /\ dbg_object' = Null
           /\ UNCHANGED <<long_width, type_, arg1_, arg2_>>
           /\ UNCHANGED coordVars

-----------------------------------------------------------------------------
(* The evaluation coordinator: the protocol between the callback thread    *)
(* (DebuggerCallback) and the worker threads (StackFrame), as the          *)
(* specification of the coordinator states it.                             *)

NumWorkers == 2
MaxValue == 2

Workers == 1..NumWorkers
EvalValues == 1..MaxValue

NoReturn == [hr |-> "none", value |-> 0, exception |-> FALSE]
NoSignal == [value |-> 0, exception |-> FALSE]

\* Mutant of CoordinatorBusy: a second request is never turned away.
CoordinatorBusy_Never(state) == FALSE

\* WaitForEval finds the coordinator busy: an evaluation is pending, or its
\* result has not been consumed yet.
CoordinatorBusy(state) == state # "Idle"

\* Mutant of MayResumeForGood: the callback thread does not wait for the
\* workers' finished signals.
MayResumeForGood_Always(pcs) == TRUE

\* The callback thread may resume the target for good.
MayResumeForGood(pcs) == \A w \in Workers : pcs[w] = "finished"

\* Mutant of MustCancel: a target that disappears is never noticed.
MustCancel_Never(state, tgt) == FALSE

\* The callback thread releases a worker whose target has disappeared.
MustCancel(state, tgt) == state = "EvalRequested" /\ tgt = "gone"

\* Mutant of DeliveredValue: the result slot is not read.
DeliveredValue_Stale(slot) == 0

\* The value WaitForEval hands back when it wakes.
DeliveredValue(slot) == slot

\* WaitingForEval(): whether an evaluation is pending.
WaitingForEval == pending_flag

\* PrintBreakpoint has started the workers; the target is suspended at the
\* breakpoint and the callback thread waits for the ready signal.
CoordInit ==
  /\ coord_state = "Idle"
  /\ pending_flag = FALSE
  /\ result_slot = 0
  /\ exception_flag = FALSE
  /\ waiter = 0
  /\ wpc = [w \in Workers |-> "reading"]
  /\ wret = [w \in Workers |-> NoReturn]
  /\ cb_pc = "waiting_ready"
  /\ target = "suspended"
  /\ signalled = NoSignal

\* Worker: WaitForReadySignal, "operand extraction complete".
WaitForReadySignal(w) ==
  /\ wpc[w] = "reading"
  /\ wpc' = [wpc EXCEPT ![w] = "ready"]
  /\ UNCHANGED evalVars
  /\ UNCHANGED <<coord_state, pending_flag, result_slot, exception_flag, waiter,
                 wret, cb_pc, target, signalled>>

\* Callback thread: every worker gave its ready signal; the callback returns
\* and from now on receives the runtime's notifications.
ReceiveReadySignal ==
  /\ cb_pc = "waiting_ready"
  /\ \A w \in Workers : wpc[w] # "reading"
  /\ cb_pc' = "listening"
  /\ UNCHANGED evalVars
  /\ UNCHANGED <<coord_state, pending_flag, result_slot, exception_flag, waiter,
                 wpc, wret, target, signalled>>

\* Worker: WaitForEval.  A call that finds the coordinator busy returns at
\* once; otherwise the evaluation is requested, the target is resumed to run
\* it, and the worker blocks.
WaitForEval(w) ==
  /\ wpc[w] = "ready"
  /\ cb_pc = "listening"
  /\ IF CoordinatorBusy(coord_state)
       THEN /\ wret' = [wret EXCEPT ![w] = [hr |-> "CoordinatorBusy", value |-> 0,
                                            exception |-> FALSE]]
            /\ UNCHANGED <<coord_state, pending_flag, result_slot,
                           exception_flag, waiter, wpc, target>>
       ELSE /\ coord_state' = "EvalRequested"
            /\ pending_flag' = TRUE
            /\ result_slot' = 0
            /\ exception_flag' = FALSE
            /\ waiter' = w
            /\ wpc' = [wpc EXCEPT ![w] = "blocked"]
            /\ target' = IF target = "suspended" THEN "running_eval" ELSE target
            /\ wret' = [wret EXCEPT ![w] = NoReturn]
  /\ UNCHANGED evalVars
  /\ UNCHANGED <<cb_pc, signalled>>

\* Callback thread: SignalFinishedEval, the runtime reported EvalComplete.
SignalFinishedEval(v) ==
  /\ cb_pc = "listening"
  /\ coord_state = "EvalRequested"
  /\ target = "running_eval"
  /\ coord_state' = "Completed"
  /\ pending_flag' = FALSE
  /\ result_slot' = v
  /\ target' = "suspended"
  /\ signalled' = [value |-> v, exception |-> FALSE]
  /\ UNCHANGED evalVars
  /\ UNCHANGED <<exception_flag, waiter, wpc, wret, cb_pc>>

\* Callback thread: HandleException, the runtime reported EvalException.
HandleException ==
  /\ cb_pc = "listening"
  /\ coord_state = "EvalRequested"
  /\ target = "running_eval"
  /\ coord_state' = "ExceptionThrown"
  /\ pending_flag' = FALSE
  /\ exception_flag' = TRUE
  /\ target' = "suspended"
  /\ signalled' = [value |-> 0, exception |-> TRUE]
  /\ UNCHANGED evalVars
  /\ UNCHANGED <<result_slot, waiter, wpc, wret, cb_pc>>

\* The target process or thread disappears (detach, crash).
TargetDisappears ==
  /\ target \in {"suspended", "running_eval"}
  /\ target' = "gone"
  /\ UNCHANGED evalVars
  /\ UNCHANGED <<coord_state, pending_flag, result_slot, exception_flag, waiter,
                 wpc, wret, cb_pc, signalled>>

\* Callback thread: the target is gone while an evaluation is pending; the
\* callback signals an error state to release the worker.
CancelEvaluation ==
  /\ cb_pc = "listening"
  /\ MustCancel(coord_state, target)
  /\ coord_state' = "ExceptionThrown"
  /\ pending_flag' = FALSE
  /\ exception_flag' = TRUE
  /\ signalled' = [value |-> 0, exception |-> TRUE]
  /\ UNCHANGED evalVars
  /\ UNCHANGED <<result_slot, waiter, wpc, wret, cb_pc, target>>

\* Worker: the wait inside WaitForEval ends; the signal with its result (or
\* its exception) is consumed and the coordinator is idle again.
WakeFromEval(w) ==
  /\ wpc[w] = "blocked"
  /\ waiter = w
  /\ coord_state \in {"Completed", "ExceptionThrown"}
  /\ wret' = [wret EXCEPT ![w] =
                [hr |-> IF exception_flag /\ target = "gone" THEN "E_TARGET_GONE"
                        ELSE S_OK,
                 value |-> DeliveredValue(result_slot),
                 exception |-> exception_flag]]
  /\ wpc' = [wpc EXCEPT ![w] = "ready"]
  /\ coord_state' = "Idle"
  /\ result_slot' = 0
  /\ exception_flag' = FALSE
  /\ waiter' = 0
  /\ signalled' = NoSignal
  /\ UNCHANGED evalVars
  /\ UNCHANGED <<pending_flag, cb_pc, target>>

\* Worker: SignalFinishedPrintingVariable, all values are read and printed.
SignalFinishedPrintingVariable(w) ==
  /\ wpc[w] = "ready"
  /\ wpc' = [wpc EXCEPT ![w] = "finished"]
  /\ UNCHANGED evalVars
  /\ UNCHANGED <<coord_state, pending_flag, result_slot, exception_flag, waiter,
                 wret, cb_pc, target, signalled>>

\* Callback thread: resumes the target process for good.
ResumeTarget ==
  /\ cb_pc = "listening"
  /\ MayResumeForGood(wpc)
  /\ target = "suspended"
  /\ target' = "resumed"
  /\ cb_pc' = "done"
  /\ UNCHANGED evalVars
  /\ UNCHANGED <<coord_state, pending_flag, result_slot, exception_flag, waiter,
                 wpc, wret, signalled>>

CallbackSignals ==
  \/ \E v \in EvalValues : SignalFinishedEval(v)
  \/ HandleException
  \/ CancelEvaluation

CoordNext ==
  \/ \E w \in Workers : WaitForReadySignal(w)
  \/ ReceiveReadySignal
  \/ \E w \in Workers : WaitForEval(w)
  \/ \E v \in EvalValues : SignalFinishedEval(v)
  \/ HandleException
  \/ TargetDisappears
  \/ CancelEvaluation
  \/ \E w \in Workers : WakeFromEval(w)
  \/ \E w \in Workers : SignalFinishedPrintingVariable(w)
  \/ ResumeTarget

-----------------------------------------------------------------------------
(* BinaryExpressionEvaluator::Evaluate on a worker thread.  Evaluate hands *)
(* the caller's IEvalCoordinator to arg1_->Evaluate and to                 *)
(* arg2_->Evaluate: a child that calls a method or a property getter calls *)
(* WaitForEval on it and blocks until the callback thread signals.  One    *)
(* Evaluate is three steps of the worker, with the coordinator's steps in  *)
(* between.                                                                *)

\* The worker thread that compiles and evaluates the node.
EvalWorker == CHOOSE w \in Workers : TRUE

\* The worker has reached this node's expression: its ready signal is
\* given, the callback thread listens, the other workers have finished.
EvalCoordInit ==
  /\ coord_state = "Idle"
  /\ pending_flag = FALSE
  /\ result_slot = 0
  /\ exception_flag = FALSE
  /\ waiter = 0
  /\ wpc = [w \in Workers |-> IF w = EvalWorker THEN "ready" ELSE "finished"]
  /\ wret = [w \in Workers |-> NoReturn]
  /\ cb_pc = "listening"
  /\ target = "suspended"
  /\ signalled = NoSignal

\* Evaluate is called and calls arg1_->Evaluate.  The caller evaluates a
\* node only after its Compile succeeded.  Evaluate is const: a second
\* Evaluate reaches the states of the first, so one is explored per Compile.
Evaluate ==
  /\ phase = "compiled"
  /\ SUCCEEDED(compile_hr)
  /\ wpc[EvalWorker] = "ready"
  /\ phase' = "arg1"
  /\ arg1_evals' = 1
  /\ UNCHANGED <<long_width, type_, arg1_, arg2_, computer_, result_type_,
                 compile_hr, err_stream, arg1_obj, arg2_obj, arg2_evals,
                 computer_calls, eval_hr, dbg_object>>
  /\ UNCHANGED coordVars

\* The child under evaluation calls WaitForEval on the coordinator it was
\* handed.
ChildWaitForEval ==
  /\ phase \in {"arg1", "arg2"}
  /\ WaitForEval(EvalWorker)

\* Evaluate returns with outcome `out`.
EvaluateReturns(out) ==
  /\ arg2_obj' = out.arg2
  /\ arg1_evals' = out.arg1_evals
  /\ arg2_evals' = out.arg2_evals
  /\ computer_calls' = out.computer_calls
  /\ eval_hr' = out.hr
  /\ dbg_object' = out.obj
  /\ err_stream' = out.err
  /\ phase' = "evaluated"

\* A child's Evaluate returns to the worker: what its last WaitForEval
\* returned is gone with the child's frame.
ChildReturns ==
  /\ wpc[EvalWorker] = "ready"
  /\ wret' = [wret EXCEPT ![EvalWorker] = NoReturn]
  /\ UNCHANGED <<coord_state, pending_flag, result_slot, exception_flag, waiter,
                 wpc, cb_pc, target, signalled>>

\* arg1_->Evaluate returns: Evaluate returns on its failure or on a short
\* circuit, and otherwise calls arg2_->Evaluate.
EvaluateArg1Returns ==
  /\ phase = "arg1"
  /\ ChildReturns
  /\ \E r1 \in ChildEvaluate(arg1_.cor_type, arg2_.cor_type) :
       /\ arg1_obj' = r1
       /\ IF FirstOperandOutcomes(type_, r1) # {}
            THEN \E out \in FirstOperandOutcomes(type_, r1) : EvaluateReturns(out)
            ELSE /\ phase' = "arg2"
                 /\ arg2_evals' = 1
                 /\ UNCHANGED <<arg2_obj, arg1_evals, computer_calls, eval_hr,
                                dbg_object, err_stream>>
  /\ UNCHANGED <<long_width, type_, arg1_, arg2_, computer_, result_type_,
                 compile_hr>>

\* arg2_->Evaluate returns: Evaluate returns on its failure, and otherwise
\* calls the computer and returns what it returns.
EvaluateArg2Returns ==
  /\ phase = "arg2"
  /\ ChildReturns
  /\ \E r2 \in ChildEvaluate(arg2_.cor_type, arg1_.cor_type) :
       \E out \in SecondOperandOutcomes(type_, computer_, arg1_obj, r2,
                                        long_width) :
         EvaluateReturns(out)
  /\ UNCHANGED <<long_width, type_, arg1_, arg2_, computer_, result_type_,
                 compile_hr, arg1_obj>>

-----------------------------------------------------------------------------
(* The specifications                                                      *)

\* One Binary node, compiled and evaluated by a worker thread; the callback
\* thread runs while a child of the node waits on the coordinator.
Init == EvalInit /\ EvalCoordInit
Next ==
  \/ Compile
  \/ Evaluate
  \/ ChildWaitForEval
  \/ \E v \in EvalValues : SignalFinishedEval(v)
  \/ HandleException
  \/ TargetDisappears
  \/ CancelEvaluation
  \/ WakeFromEval(EvalWorker)
  \/ EvaluateArg1Returns
  \/ EvaluateArg2Returns
Spec == Init /\ [][Next]_vars


\* The coordinator protocol; the Binary node is `true && true`, untouched.
CoordSpecInit ==
  /\ EvalInit
  /\ long_width = 64
  /\ type_ = "conditional_and"
  /\ arg1_.cor_type = ELEMENT_TYPE_BOOLEAN
  /\ arg2_.cor_type = ELEMENT_TYPE_BOOLEAN
  /\ CoordInit
CoordSpec == CoordSpecInit /\ [][CoordNext]_vars

\* The callback thread is scheduled fairly, and a worker whose wait was
\* signalled wakes up.
CoordFairSpec ==
  /\ CoordSpec
  /\ WF_vars(CallbackSignals)
  /\ \A w \in Workers : WF_vars(WakeFromEval(w))

-----------------------------------------------------------------------------
(* Properties of the Binary node (specification Spec)                      *)

BothOperandsEvaluated ==
  phase = "evaluated" /\ SUCCEEDED(arg1_obj.hr) /\ SUCCEEDED(arg2_obj.hr)

\* The most recent Compile reached the operator dispatch: both children
\* compiled.
DispatchReached == compile_hr \notin {"none", E_CHILD}

LeftIsBoolean(b) ==
  /\ SUCCEEDED(arg1_obj.hr)
  /\ arg1_obj.obj = DbgPrimitiveBool(b)

\* C1 (short-circuit).  After an Evaluate of a conditional_and node whose
\* left operand evaluated to false, or of a conditional_or node whose left
\* operand evaluated to true: Evaluate returned S_OK with that boolean, the
\* right operand's Evaluate was not called, no computer ran, and the left
\* operand was evaluated exactly once.
C1_ShortCircuit ==
  (/\ phase = "evaluated"
   /\ \/ type_ = "conditional_and" /\ LeftIsBoolean(FALSE)
      \/ type_ = "conditional_or" /\ LeftIsBoolean(TRUE))
  => /\ eval_hr = S_OK
     /\ dbg_object = DbgPrimitiveBool(type_ = "conditional_or")
     /\ arg1_evals = 1
     /\ arg2_evals = 0
     /\ arg2_obj = NotEvaluated
     /\ computer_calls = 0

C1_Witness ==
  /\ phase = "evaluated"
  /\ type_ = "conditional_and"
  /\ LeftIsBoolean(FALSE)
  /\ eval_hr = S_OK
  /\ arg2_evals = 0

IsZeroOperand(obj) ==
  /\ IsNumericalType(obj.kind)
  /\ IF obj.kind \in FloatKinds THEN obj.num = 0 ELSE obj.bits = {}

\* C6 (division by zero).  After an Evaluate of a div or mod node in which
\* both operands evaluated to numbers and the right operand's value is 0: at an
\* integral promoted kind Evaluate returned E_INVALIDARG and produced no
\* value; at float32 or float64 it returned S_OK with a value.
C6_DivisionByZero ==
  (/\ BothOperandsEvaluated
   /\ type_ \in {"div", "mod"}
   /\ computer_.fn = "ArithmeticComputer"
   /\ IsNumericalType(arg1_obj.obj.kind)
   /\ IsZeroOperand(arg2_obj.obj))
  => IF computer_.T \in FloatKinds
       THEN eval_hr = S_OK /\ dbg_object.kind = computer_.T
       ELSE eval_hr = E_INVALIDARG /\ dbg_object = Null

C6_Witness ==
  /\ BothOperandsEvaluated
  /\ type_ = "mod"
  /\ computer_ = Computer("ArithmeticComputer", ELEMENT_TYPE_I4)
  /\ arg1_obj.obj = DbgPrimitiveInt(ELEMENT_TYPE_I4, BitsOf(5, 32))
  /\ arg2_obj.obj = DbgPrimitiveInt(ELEMENT_TYPE_I4, BitsOf(0, 32))
  /\ eval_hr = E_INVALIDARG

\* The operands of the most recent Evaluate, extracted at the computer's kind.
Value1 == ExtractPrimitiveValue(computer_.T, arg1_obj.obj)
Value2 == ExtractPrimitiveValue(computer_.T, arg2_obj.obj)

\* (minimum of T, -1) at a signed 32- or 64-bit kind T.
IsMinByMinusOne(T, v1, v2) ==
  /\ T \in {ELEMENT_TYPE_I4, ELEMENT_TYPE_I8}
  /\ v1.bits = {Width(T) - 1}
  /\ v2.bits = 0..(Width(T) - 1)

\* C7 (division overflow).  After an Evaluate of a div or mod node at an
\* integral kind with a nonzero divisor: Evaluate returned E_INVALIDARG
\* exactly when the operands are (INT32_MIN, -1) at int32 or (INT64_MIN, -1)
\* at int64; at uint32 and uint64 no pair is rejected.
C7_DivisionOverflow ==
  (/\ BothOperandsEvaluated
   /\ type_ \in {"div", "mod"}
   /\ computer_.fn = "ArithmeticComputer"
   /\ computer_.T \notin FloatKinds
   /\ Value2.bits # {})
  => (eval_hr = E_INVALIDARG <=> IsMinByMinusOne(computer_.T, Value1, Value2))

\* C8 (address comparison polarity).  After an Evaluate that ran the address
\* comparison: eq yields whether the two operands have the same address, ne
\* yields the negation.
C8_AddressComparison ==
  (/\ BothOperandsEvaluated
   /\ computer_.fn = "ConditionalObjectComputer"
   /\ computer_calls = 1)
  => LET same == arg1_obj.obj.addr = arg2_obj.obj.addr
     IN  /\ eval_hr = S_OK
         /\ dbg_object = DbgPrimitiveBool(IF type_ = "eq" THEN same ELSE ~same)

\* C9 (numeric relational promotion).  After a Compile of a relational node
\* with two numeric operands: if the two kinds promote, Compile succeeded,
\* the comparison runs at Promote(left kind, right kind) and the result type
\* is boolean; if they do not, Compile failed with TypeMismatch.
C9_RelationalPromotion ==
  (/\ DispatchReached
   /\ type_ \in RelationalTypes
   /\ IsNumericalType(arg1_.cor_type)
   /\ IsNumericalType(arg2_.cor_type))
  => LET p == BinaryNumericalPromotion(arg1_.cor_type, arg2_.cor_type)
     IN  IF p.ok
           THEN /\ compile_hr = S_OK
                /\ computer_ = Computer("NumericalComparisonComputer", p.result)
                /\ result_type_.cor_type = ELEMENT_TYPE_BOOLEAN
           ELSE /\ FAILED(compile_hr)
                /\ err_stream = <<kTypeMismatch>>

\* C10 (shift operand type check).  After a Compile of a shift node: Compile
\* succeeded exactly when the left operand is integral and the right operand
\* is int32 or promotes to int, and then the result type is the left
\* operand's kind, widened to int32 if narrower than int.
C10_ShiftTypeCheck ==
  (DispatchReached /\ type_ \in ShiftTypes)
  => LET a1 == arg1_.cor_type
         a2 == arg2_.cor_type
         accepted == /\ IsIntegralType(a1)
                     /\ (a2 = ELEMENT_TYPE_I4 \/ IsNumericallyPromotedToInt(a2))
     IN  /\ SUCCEEDED(compile_hr) <=> accepted
         /\ accepted =>
              result_type_.cor_type =
                (IF IsNumericallyPromotedToInt(a1) THEN ELEMENT_TYPE_I4 ELSE a1)

\* The most recent Evaluate ran the shift computer on two integral objects.
ShiftEvaluated ==
  /\ BothOperandsEvaluated
  /\ type_ \in ShiftTypes
  /\ computer_.fn = "ShiftComputer"
  /\ computer_calls = 1
  /\ IsIntegralType(arg1_obj.obj.kind)
  /\ IsIntegralType(arg2_obj.obj.kind)

\* The count operand as an int32 number, and its low-order five bits (32-bit
\* working kind) or six bits (64-bit working kind).
CountValue == ToInt(ExtractPrimitiveValue(ELEMENT_TYPE_I4, arg2_obj.obj).bits, 32, TRUE)
LowOrderCount == CountValue % Width(computer_.T)

\* What shifting the left operand by count positions gives at the working
\* kind.
ShiftedBy(count) ==
  LET T == computer_.T
      a == Value1.bits
  IN  DbgPrimitiveInt(T, IF type_ = "shl" THEN BvShl(a, count, Width(T))
                         ELSE IF IsSigned(T) THEN BvAShr(a, count, Width(T))
                         ELSE BvLShr(a, count, Width(T)))

\* C11 (shift-count masking).  After an Evaluate of a shift node on two
\* integral operands, whatever the count (negative and over-wide counts
\* included): Evaluate returned S_OK with the left operand shifted by
\* count & 0x1F at int32 and uint32, by count & 0x3F at int64 and uint64.
\* The one other outcome is the undefined `<<` of a signed value that is
\* negative or overflows under the masked count, which may crash; no count
\* makes Evaluate return a failure status.
C11_ShiftMasking ==
  ShiftEvaluated
  => /\ computer_.Bitmask = Width(computer_.T) - 1
     /\ \/ eval_hr = S_OK /\ dbg_object = ShiftedBy(LowOrderCount)
        \/ /\ eval_hr = CRASHED
           /\ type_ = "shl"
           /\ ShlUndefined(computer_.T, Value1.bits, LowOrderCount)

C11_Witness ==
  /\ ShiftEvaluated
  /\ type_ = "shl"
  /\ computer_ = ShiftComputerOf(ELEMENT_TYPE_I8, 63)
  /\ arg1_obj.obj = DbgPrimitiveInt(ELEMENT_TYPE_I8, BitsOf(1, 64))
  /\ arg2_obj.obj = DbgPrimitiveInt(ELEMENT_TYPE_I4, BitsOf(65, 32))
  /\ eval_hr = S_OK
  /\ dbg_object = DbgPrimitiveInt(ELEMENT_TYPE_I8, BitsOf(2, 64))

\* The most recent Compile reached the operator dispatch and returned a
\* success status.
CompileSucceeded == DispatchReached /\ SUCCEEDED(compile_hr)

\* C12 (shr_s and shr_u).  After a successful Compile of a shr_s or shr_u
\* node that selected the shift computer: the working kind is signed for
\* shr_s and unsigned for shr_u; and after an Evaluate of either the result
\* is the one >> of the value extracted at that working kind.
C12_ShiftRightKinds ==
  (/\ CompileSucceeded
   /\ type_ \in {"shr_s", "shr_u"}
   /\ computer_.fn = "ShiftComputer")
  => /\ IsSigned(computer_.T) <=> type_ = "shr_s"
     /\ (ShiftEvaluated /\ eval_hr = S_OK)
          => dbg_object = ShiftedBy(LowOrderCount)

\* C12, as the code has it.  After a successful Compile of a shr_s or shr_u
\* node that selected the shift computer: the working kind is int32 for a
\* left operand of kind char, int16, uint16 or int32 and the left operand's
\* own kind for uint32, int64 and uint64, whichever of the two operators
\* the node has, so that it is unsigned exactly when the left operand is
\* uint32 or uint64; and after an Evaluate of either, Evaluate returned S_OK
\* with the one >> of the value extracted at that working kind.
C12_ShiftRightSameOperation ==
  (/\ CompileSucceeded
   /\ type_ \in {"shr_s", "shr_u"}
   /\ computer_.fn = "ShiftComputer")
  => /\ computer_.T = (IF arg1_.cor_type \in {ELEMENT_TYPE_CHAR, ELEMENT_TYPE_I2,
                                             ELEMENT_TYPE_U2}
                         THEN ELEMENT_TYPE_I4 ELSE arg1_.cor_type)
     /\ computer_.T \in {ELEMENT_TYPE_I4, ELEMENT_TYPE_U4, ELEMENT_TYPE_I8,
                         ELEMENT_TYPE_U8}
     /\ ~IsSigned(computer_.T)
          <=> arg1_.cor_type \in {ELEMENT_TYPE_U4, ELEMENT_TYPE_U8}
     /\ (ShiftEvaluated /\ eval_hr = S_OK)
          => dbg_object = ShiftedBy(LowOrderCount)
     /\ ShiftEvaluated => eval_hr = S_OK

C12_Witness ==
  /\ ShiftEvaluated
  /\ type_ = "shr_u"
  /\ computer_ = ShiftComputerOf(ELEMENT_TYPE_I4, 31)
  /\ arg1_obj.obj = DbgPrimitiveInt(ELEMENT_TYPE_I4, BitsOf(-1, 32))
  /\ arg2_obj.obj = DbgPrimitiveInt(ELEMENT_TYPE_I4, BitsOf(1, 32))
  /\ eval_hr = S_OK
  /\ dbg_object = DbgPrimitiveInt(ELEMENT_TYPE_I4, BitsOf(-1, 32))

\* The category label a failed Compile left on the diagnostic stream.
CompileFailedWith(hr, label) ==
  compile_hr = hr /\ phase = "compiled" /\ err_stream = <<label>>

\* C13 (relational dispatch on non-numeric operands).  After a Compile of a
\* relational node whose operands are not both numeric: lt, le, gt and ge
\* failed with E_NOTIMPL and ExpressionNotSupported; eq and ne selected the
\* boolean computer for boolean/boolean, the string computer for
\* string/string, the address computer for any other pair without a numeric
\* operand, and failed with TypeMismatch when exactly one operand is
\* numeric.  Every successful relational Compile left result type boolean.
C13_RelationalDispatch ==
  LET a1 == arg1_.cor_type
      a2 == arg2_.cor_type
      selected(fn) == compile_hr = S_OK /\ computer_ = Computer(fn, "")
  IN  /\ (/\ DispatchReached
          /\ type_ \in RelationalTypes
          /\ ~(IsNumericalType(a1) /\ IsNumericalType(a2)))
         => IF type_ \in {"lt", "le", "gt", "ge"}
              THEN CompileFailedWith(E_NOTIMPL, kExpressionNotSupported)
            ELSE IF a1 = ELEMENT_TYPE_BOOLEAN /\ a2 = ELEMENT_TYPE_BOOLEAN
              THEN selected("ConditionalBooleanComputer")
            ELSE IF a1 = ELEMENT_TYPE_STRING /\ a2 = ELEMENT_TYPE_STRING
              THEN selected("ConditionalStringComputer")
            ELSE IF ~IsNumericalType(a1) /\ ~IsNumericalType(a2)
              THEN selected("ConditionalObjectComputer")
            ELSE CompileFailedWith(E_FAIL, kTypeMismatch)
      /\ (CompileSucceeded /\ type_ \in RelationalTypes)
         => result_type_ = [cor_type |-> ELEMENT_TYPE_BOOLEAN,
                            type_name |-> kBooleanClassName]

C13_Witness ==
  /\ phase = "compiled"
  /\ type_ = "ne"
  /\ arg1_.cor_type = ELEMENT_TYPE_BOOLEAN
  /\ arg2_.cor_type = ELEMENT_TYPE_STRING
  /\ compile_hr = S_OK
  /\ computer_ = Computer("ConditionalObjectComputer", "")
  /\ result_type_.cor_type = ELEMENT_TYPE_BOOLEAN

\* The kind at which the node extracts operand n (1 or 2) of the most recent
\* Evaluate: boolean for the short-circuit test and the boolean computer,
\* int32 for a shift count, the working kind otherwise; "" when the selected
\* operation extracts no primitive.
ExtractionKind(n) ==
  CASE type_ \in ConditionalTypes -> ELEMENT_TYPE_BOOLEAN
    [] computer_.fn = "ConditionalBooleanComputer" -> ELEMENT_TYPE_BOOLEAN
    [] computer_.fn = "ShiftComputer" /\ n = 2 -> ELEMENT_TYPE_I4
    [] computer_.fn \in {"ArithmeticComputer", "BitwiseComputer", "ShiftComputer",
                         "NumericalComparisonComputer"} -> computer_.T
    [] OTHER -> ""

\* Extracting the value of operand n fails.
Unextractable(n) ==
  LET r == IF n = 1 THEN arg1_obj ELSE arg2_obj
  IN  /\ SUCCEEDED(r.hr)
      /\ ExtractionKind(n) # ""
      /\ FAILED(ExtractPrimitiveValue(ExtractionKind(n), r.obj).hr)

\* The operand whose extraction the most recent Evaluate attempted and saw
\* fail, 0 if none: the left operand's in the short-circuit test or first
\* in the operation, the right operand's after the left one's succeeded.
FailedExtraction ==
  IF phase # "evaluated" THEN 0
  ELSE IF Unextractable(1) /\ (type_ \in ConditionalTypes \/ computer_calls = 1)
    THEN 1
  ELSE IF Unextractable(2) /\ computer_calls = 1 THEN 2
  ELSE 0

\* The status ExtractPrimitiveValue returned for operand n.
ExtractionStatus(n) ==
  ExtractPrimitiveValue(ExtractionKind(n),
                        IF n = 1 THEN arg1_obj.obj ELSE arg2_obj.obj).hr

\* Evaluation order and the propagation of the children's errors, common to
\* the claim and to its amended form: the left operand is evaluated first
\* and once, the right operand is not called before the left has returned
\* with success, and no operation runs before both have returned; the left
\* operand's failure is returned unchanged, tagged as the first
\* operand's, with the right operand not evaluated and no operation run;
\* a node that is not a conditional evaluates the right operand next, and
\* so does a conditional that does not short-circuit (conditional_and with
\* the left operand true, conditional_or with it false); the right
\* operand's failure is returned unchanged, tagged as the second
\* operand's, with no operation run; the operation runs once both succeeded.
ChildErrorsPropagate ==
  /\ phase = "arg1"
       => arg1_evals = 1 /\ arg2_evals = 0 /\ computer_calls = 0
  /\ phase = "arg2"
       => /\ SUCCEEDED(arg1_obj.hr)
          /\ arg1_evals = 1 /\ arg2_evals = 1 /\ computer_calls = 0
  /\ phase = "evaluated"
       => /\ arg1_evals = 1
          /\ FAILED(arg1_obj.hr)
               => /\ eval_hr = arg1_obj.hr
                  /\ arg2_evals = 0
                  /\ arg2_obj = NotEvaluated
                  /\ computer_calls = 0
                  /\ dbg_object = Null
                  /\ err_stream = <<kFailedToEvalFirstSubExpr>>
          /\ (SUCCEEDED(arg1_obj.hr) /\ type_ \notin ConditionalTypes)
               => arg2_evals = 1
          /\ (type_ = "conditional_and" /\ LeftIsBoolean(TRUE))
               => arg2_evals = 1
          /\ (type_ = "conditional_or" /\ LeftIsBoolean(FALSE))
               => arg2_evals = 1
          /\ (arg2_evals = 1 /\ FAILED(arg2_obj.hr))
               => /\ eval_hr = arg2_obj.hr
                  /\ computer_calls = 0
                  /\ dbg_object = Null
                  /\ err_stream = <<kFailedToEvalSecondSubExpr>>
          /\ computer_calls = 1 <=> BothOperandsEvaluated

\* C14 (evaluation order and error propagation).  After an Evaluate: the
\* children's errors propagate as above, and when the extraction of an
\* operand's value failed, Evaluate returned that status unchanged and the
\* diagnostic stream carries the tag of the operand that failed.
C14_ErrorPropagation ==
  /\ ChildErrorsPropagate
  /\ (computer_ # nullptr /\ FailedExtraction # 0)
       => /\ eval_hr = ExtractionStatus(FailedExtraction)
          /\ err_stream = <<IF FailedExtraction = 1
                              THEN kFailedToEvalFirstSubExpr
                              ELSE kFailedToEvalSecondSubExpr>>

\* C14, as the code has it.  After an Evaluate: the children's errors
\* propagate as above, tagged; when the extraction of an operand's value
\* failed, Evaluate returned that status unchanged, produced no value, and
\* wrote nothing to the diagnostic stream; and a conditional whose left
\* operand's extraction failed in the short-circuit test did not evaluate
\* the right operand and ran no operation.
C14_ExtractionErrorsUntagged ==
  /\ ChildErrorsPropagate
  /\ (computer_ # nullptr /\ FailedExtraction # 0)
       => /\ eval_hr = ExtractionStatus(FailedExtraction)
          /\ dbg_object = Null
          /\ err_stream = <<>>
  /\ (computer_ # nullptr /\ FailedExtraction = 1 /\ type_ \in ConditionalTypes)
       => /\ arg2_evals = 0
          /\ arg2_obj = NotEvaluated
          /\ computer_calls = 0

C14_Witness ==
  /\ phase = "evaluated"
  /\ type_ = "add"
  /\ computer_ = Computer("ArithmeticComputer", ELEMENT_TYPE_I4)
  /\ arg1_obj.obj = DbgPrimitiveInt(ELEMENT_TYPE_I4, BitsOf(5, 32))
  /\ arg2_obj = [hr |-> S_OK, obj |-> NotAPrimitive]
  /\ FailedExtraction = 2
  /\ eval_hr = E_FAIL
  /\ err_stream = <<>>

\* C15 (compile failure reporting).  After a Compile that reached the
\* operator dispatch: Compile returned a failure status exactly when it
\* wrote a category label, the label is TypeMismatch or
\* ExpressionNotSupported, and a Compile that returned success selected an
\* operation for the operand kinds (they were not rejected).
C15_CompileFailureReporting ==
  (DispatchReached /\ phase = "compiled")
  => /\ FAILED(compile_hr) <=> err_stream # <<>>
     /\ err_stream \in {<<>>, <<kTypeMismatch>>, <<kExpressionNotSupported>>}
     /\ SUCCEEDED(compile_hr) => computer_ # nullptr

\* C16 (selected-operation invariant).  A node that was never compiled has
\* no selected operation; whenever the most recent Compile returned a
\* success status the node holds a selected operation; and an Evaluate
\* never invoked an unset operation.
C16_SelectedOperation ==
  /\ phase = "constructed" => computer_ = nullptr
  /\ (phase # "constructed" /\ SUCCEEDED(compile_hr)) => computer_ # nullptr
  /\ computer_calls = 1 => computer_ # nullptr

\* The operator tags each operation has an explicit case for.
HandledTags(fn) ==
  CASE fn = "ArithmeticComputer" -> {"add", "sub", "mul", "div", "mod"}
    [] fn = "NumericalComparisonComputer" -> {"eq", "ne", "lt", "le", "gt", "ge"}
    [] fn = "ConditionalBooleanComputer" ->
         {"conditional_and", "conditional_or", "bitwise_and", "bitwise_or",
          "bitwise_xor", "eq", "ne"}
    [] fn = "BitwiseComputer" -> {"bitwise_and", "bitwise_or", "bitwise_xor"}
    [] fn = "ShiftComputer" -> {"shl", "shr_s", "shr_u"}
    [] fn \in {"ConditionalStringComputer", "ConditionalObjectComputer"} ->
         {"eq", "ne"}
    [] OTHER -> {}

\* C17 (operator/operation consistency).  Whenever the most recent Compile
\* succeeded and selected an operation, that operation has an explicit case
\* for the node's operator tag; and an Evaluate that ran a selected
\* operation did not return E_NOTIMPL.  (A successful Compile that selects
\* no operation is the subject of C16.)
C17_OperatorConsistency ==
  /\ (phase # "constructed" /\ SUCCEEDED(compile_hr) /\ computer_ # nullptr)
       => type_ \in HandledTags(computer_.fn)
  /\ (phase = "evaluated" /\ computer_ # nullptr) => eval_hr # E_NOTIMPL

C17_Witness ==
  /\ phase = "evaluated"
  /\ type_ = "bitwise_xor"
  /\ computer_ = Computer("ConditionalBooleanComputer", "")
  /\ computer_calls = 1
  /\ arg1_obj.obj = DbgPrimitiveBool(TRUE)
  /\ arg2_obj.obj = DbgPrimitiveBool(FALSE)
  /\ eval_hr = S_OK
  /\ dbg_object = DbgPrimitiveBool(TRUE)

-----------------------------------------------------------------------------
(* Properties of the coordinator (specifications CoordSpec, CoordFairSpec) *)

BlockedWorkers == {w \in Workers : wpc[w] = "blocked"}

\* Worker w makes a WaitForEval call in this step: it is past its ready
\* signal, and the step blocks it or changes what its last call returned.
CallsWaitForEval(w) ==
  /\ wpc[w] = "ready"
  /\ wpc'[w] = "blocked" \/ wret'[w] # wret[w]

\* Worker w leaves the wait inside WaitForEval in this step.
ReturnsFromWait(w) == wpc[w] = "blocked" /\ wpc'[w] # "blocked"

\* C2 (one pending evaluation).  In every reachable state at most one
\* worker is blocked in WaitForEval, and it is the one whose evaluation the
\* coordinator holds; and a WaitForEval call made while an evaluation is
\* pending returns CoordinatorBusy in that very step, leaves the caller
\* unblocked, and leaves the coordinator's state, pending flag, result slot,
\* exception flag, waiter and every other worker unchanged.
C2_OnePendingEvaluation ==
  /\ [](/\ Cardinality(BlockedWorkers) <= 1
        /\ \A w \in BlockedWorkers : waiter = w
        /\ WaitingForEval => BlockedWorkers # {})
  /\ [][\A w \in Workers :
          (CallsWaitForEval(w) /\ WaitingForEval)
          => /\ wret'[w].hr = "CoordinatorBusy"
             /\ \A u \in Workers \ {w} : wret'[u] = wret[u]
             /\ wpc' = wpc
             /\ UNCHANGED <<coord_state, pending_flag, result_slot,
                            exception_flag, waiter>>]_vars


C2_Witness ==
  \E w \in Workers :
    /\ wret[w].hr = "CoordinatorBusy"
    /\ wpc[w] = "ready"
    /\ WaitingForEval
    /\ \E u \in Workers \ {w} : wpc[u] = "blocked" /\ waiter = u

\* The callback thread gives a signal in this step.
GivesSignal == signalled' # signalled /\ signalled' # NoSignal

LegalTransitions ==
  { <<"Idle", "EvalRequested">>,
    <<"EvalRequested", "Completed">>,
    <<"EvalRequested", "ExceptionThrown">>,
    <<"Completed", "Idle">>,
    <<"ExceptionThrown", "Idle">> }

\* C3 (state machine and delivery).  WaitingForEval is true exactly in
\* EvalRequested; the coordinator's state changes only along
\* Idle -> EvalRequested -> (Completed | ExceptionThrown) -> Idle; a signal
\* is given only while exactly one worker is blocked; and a blocked worker
\* leaves the wait only after a signal, alone, with the value (or the
\* exception flag) the signal was given, the coordinator going back to
\* Idle so that the signal is consumed once.
C3_StateMachine ==
  /\ [](WaitingForEval <=> coord_state = "EvalRequested")
  /\ [][coord_state' # coord_state
         => <<coord_state, coord_state'>> \in LegalTransitions]_vars
  /\ [][GivesSignal
         => /\ coord_state = "EvalRequested"
            /\ coord_state' \in {"Completed", "ExceptionThrown"}
            /\ Cardinality(BlockedWorkers) = 1
            /\ wpc' = wpc]_vars
  /\ [][\A w \in Workers :
          ReturnsFromWait(w)
          => /\ coord_state \in {"Completed", "ExceptionThrown"}
             /\ coord_state' = "Idle"
             /\ signalled # NoSignal
             /\ signalled' = NoSignal
             /\ wret'[w].exception = signalled.exception
             /\ wret'[w].exception = (coord_state = "ExceptionThrown")
             /\ ~signalled.exception => wret'[w].value = signalled.value
             /\ \A u \in Workers \ {w} : wpc'[u] = wpc[u] /\ wret'[u] = wret[u]]_vars

C3_Witness ==
  \E w \in Workers :
    /\ coord_state = "Idle"
    /\ wpc[w] = "ready"
    /\ wret[w].hr = S_OK
    /\ ~wret[w].exception
    /\ wret[w].value = MaxValue
    /\ signalled = NoSignal

\* C4 (no wait lasts forever).  With the callback thread scheduled fairly,
\* every worker blocked in WaitForEval eventually leaves the wait; and a
\* worker blocked on a pending evaluation whose target has disappeared
\* eventually returns with an error, the exception flag set.
C4_EventuallyReleased ==
  \A w \in Workers :
    /\ (wpc[w] = "blocked") ~> (wpc[w] # "blocked")
    /\ (wpc[w] = "blocked" /\ WaitingForEval /\ target = "gone")
         ~> (/\ wpc[w] # "blocked"
             /\ wret[w].hr = "E_TARGET_GONE"
             /\ wret[w].exception)

C4_Witness ==
  \E w \in Workers :
    /\ target = "gone"
    /\ wpc[w] = "ready"
    /\ wret[w].hr = "E_TARGET_GONE"
    /\ wret[w].exception
    /\ coord_state = "Idle"

\* C5 (ready/finished handshake).  In every reachable state in which the
\* target has been resumed for good, every worker has called
\* SignalFinishedPrintingVariable: none is reading, about to request an
\* evaluation, or blocked in one.
C5_FinishedBeforeResume ==
  target = "resumed" => \A w \in Workers : wpc[w] = "finished"

C5_Witness ==
  /\ target = "resumed"
  /\ cb_pc = "done"
  /\ \E w \in Workers : wpc[w] = "finished" /\ wret[w].hr = S_OK

=============================================================================
